---- MODULE Spec2Model ----
(***************************************************************************)
(* A model of generate_video.py: the ComfyUI client that resolves a        *)
(* generation mode, applies mode defaults, builds a workflow graph,        *)
(* submits it and polls the server until the job ends.                     *)
(*                                                                         *)
(* Python values are encoded as follows.                                   *)
(*   None / a value x      <<>> / <<x>>   (an optional is a 0/1-tuple)     *)
(*   dict                  a function whose DOMAIN is the set of keys      *)
(*   list                  a sequence                                      *)
(*   float cfg             tenths (1.0 is 10, 7.0 is 70)                   *)
(*   an HTTP exchange      [ok |-> FALSE] when urlopen/json.loads raises,  *)
(*                         [ok |-> TRUE, body |-> <parsed JSON>] otherwise *)
(***************************************************************************)
EXTENDS Integers, Sequences, FiniteSets, TLC

VARIABLES
    pc,         \* position of main(): the next statement group to run
    args,       \* argparse namespace (mode, image, negative, width, ...)
    raw,        \* args as parsed, before main() rewrites any field
    mode,       \* resolved mode, <<>> until resolved
    uploaded_name,  \* main()'s image_filename: None or the name upload_image returned
    workflow,   \* graph built for the mode, <<>> until built
    result,     \* return value of queue_prompt
    prompt_id,  \* result.get("prompt_id")
    now,        \* time.time()
    poll,       \* locals of wait_for_completion
    poll2,      \* locals of a second wait_for_completion run (TwinSpec only)
    calls,      \* number of network calls / sleeps issued, by kind
    wire,       \* the last network exchange: which call, and whether it failed
    exit_code   \* <<>> while running, <<n>> after sys.exit(n) / normal end

vars == <<pc, args, raw, mode, uploaded_name, workflow, result, prompt_id,
          now, poll, poll2, calls, wire, exit_code>>

----------------------------------------------------------------------------
(* Bounds of the model *)

MaxTimeout == 2      \* --timeout ranges over 0..MaxTimeout
MaxQueryTime == 1    \* a network call takes 0..MaxQueryTime time units
MaxJitter == 1       \* time.sleep(2) takes 2..2+MaxJitter time units
MaxSteps == 9        \* --steps ranges over 0..MaxSteps (and 20) in PureSpec
MaxSeed == 1         \* random.randint draws from 0..MaxSeed

----------------------------------------------------------------------------
(* Python values *)

None == <<>>
Some(x) == <<x>>
EmptyDict == [k \in {} |-> k]

\* d.get(k, default)
DictGet(d, k, default) == IF k \in DOMAIN d THEN d[k] ELSE default

\* a variant of NonEmptyDict that takes any dict, also {}, for a result
\* (`if outputs is not None`)
AnyDict(d) == TRUE

\* truthiness of a dict
NonEmptyDict(d) == DOMAIN d # {}

\* truthiness of an optional string (None and "" are falsy)
TruthyStr(o) == o # None /\ o[1] # ""

----------------------------------------------------------------------------
(* What the server can answer *)

JobId == "job1"      \* the id the server assigns to this run's submission
OtherId == "job2"    \* the id of some other job

\* history[prompt_id]["outputs"]: node id -> produced artifacts
NoOutputs == EmptyDict
VideoOutputs ==
    "15" :> [gifs |-> <<[filename |-> "out_00001.mp4", subfolder |-> ""]>>]

\* history[prompt_id]["status"]
StatusSuccess == [status_str |-> "success", completed |-> TRUE, messages |-> <<>>]
StatusError == [status_str |-> "error", completed |-> FALSE,
                messages |-> <<"execution_error">>]

\* a history entry; either key may be missing
Entry(outputs, status) ==
    (IF outputs = None THEN EmptyDict ELSE [outputs |-> outputs[1]]) @@
    (IF status = None THEN EmptyDict ELSE [status |-> status[1]])

Entries ==
    { Entry(o, s) : o \in {None, Some(NoOutputs), Some(VideoOutputs)},
                    s \in {None, Some(StatusSuccess), Some(StatusError)} }

Failed == [ok |-> FALSE]
Answer(body) == [ok |-> TRUE, body |-> body]

\* GET /history/<id>
HistoryResponses ==
    {Failed, Answer(EmptyDict)}
    \cup { Answer(JobId :> e) : e \in Entries }
    \cup { Answer(OtherId :> Entry(Some(VideoOutputs), Some(StatusError))) }

\* GET /queue; either list may be missing
QueueResponses ==
    {Failed, Answer(EmptyDict),
     Answer([queue_running |-> <<JobId>>, queue_pending |-> <<>>]),
     Answer([queue_running |-> <<>>, queue_pending |-> <<JobId, OtherId>>])}

----------------------------------------------------------------------------
(* get_history, get_queue: any exception becomes {} *)

get_history(resp) == IF resp.ok THEN resp.body ELSE EmptyDict

get_queue(resp) == IF resp.ok THEN resp.body ELSE EmptyDict

----------------------------------------------------------------------------
(* wait_for_completion, one operator per stretch of the loop body.  p holds  *)
(* the function's locals; p.pc is the stretch to run next; p.ret is the      *)
(* returned value once p.pc = "returned"; p.outcome names the return         *)
(* statement taken ("Failure" line 489, "Success" line 493, "Timeout" 512).  *)

SleepInterval == 2

NotPolling ==
    [pc |-> "idle", start_time |-> 0, elapsed |-> 0, history |-> EmptyDict,
     last_status |-> <<>>, iteration |-> 0, ret |-> None, outcome |-> "none"]

\* lines 471-472
StartPolling(t) ==
    [NotPolling EXCEPT !.pc = "history", !.start_time = t]

\* line 484
IsErrorStatus(status) ==
    "status_str" \in DOMAIN status /\ status["status_str"] = "error"

\* a variant of CheckHistory that looks at the outputs before the status
CheckHistoryOutputsFirst(p, id, resp, t) ==
    LET history == get_history(resp)
        q == [p EXCEPT !.elapsed = t - p.start_time, !.history = history,
                       !.iteration = p.iteration + 1]
    IN  IF id # None /\ id[1] \in DOMAIN history
        THEN LET outputs == DictGet(history[id[1]], "outputs", EmptyDict)
                 status == DictGet(history[id[1]], "status", EmptyDict)
             IN  IF NonEmptyDict(outputs)
                 THEN [q EXCEPT !.pc = "returned", !.ret = Some(outputs),
                                !.outcome = "Success"]
                 ELSE IF IsErrorStatus(status)
                 THEN [q EXCEPT !.pc = "returned", !.ret = None,
                                !.outcome = "Failure"]
                 ELSE [q EXCEPT !.pc = "queue"]
        ELSE [q EXCEPT !.pc = "queue"]

\* lines 475-493: t is the clock reading, id the polled prompt_id (optional),
\* resp the exchange with /history
CheckHistory(p, id, resp, t) ==
    LET history == get_history(resp)
        q == [p EXCEPT !.elapsed = t - p.start_time, !.history = history,
                       !.iteration = p.iteration + 1]
    IN  IF id # None /\ id[1] \in DOMAIN history
        THEN LET outputs == DictGet(history[id[1]], "outputs", EmptyDict)
                 status == DictGet(history[id[1]], "status", EmptyDict)
             IN  IF IsErrorStatus(status)
                 THEN [q EXCEPT !.pc = "returned", !.ret = None,
                                !.outcome = "Failure"]
                 ELSE IF NonEmptyDict(outputs)
                 THEN [q EXCEPT !.pc = "returned", !.ret = Some(outputs),
                                !.outcome = "Success"]
                 ELSE [q EXCEPT !.pc = "queue"]
        ELSE [q EXCEPT !.pc = "queue"]

\* lines 500-504: the progress line, as <<elapsed, running part, pending part>>
StatusMsg(elapsed, running, pending) ==
    <<elapsed,
      IF running # <<>> THEN Some(Len(running)) ELSE None,
      IF pending # <<>> THEN Some(Len(pending)) ELSE None>>

\* a variant of ShowProgress that lets a failed queue query end the wait
ShowProgressFatal(p, resp) ==
    IF ~resp.ok
    THEN [p EXCEPT !.pc = "returned", !.ret = None, !.outcome = "Failure"]
    ELSE [p EXCEPT !.pc = "timeout",
                   !.last_status =
                       StatusMsg(p.elapsed,
                                 DictGet(resp.body, "queue_running", <<>>),
                                 DictGet(resp.body, "queue_pending", <<>>))]

\* a variant of ShowProgress that gives up once the queue shows no job
ShowProgressGivesUp(p, resp) ==
    LET queue == get_queue(resp)
        running == DictGet(queue, "queue_running", <<>>)
        pending == DictGet(queue, "queue_pending", <<>>)
    IN  IF running = <<>> /\ pending = <<>>
        THEN [p EXCEPT !.pc = "returned", !.ret = None, !.outcome = "Failure",
                       !.last_status = StatusMsg(p.elapsed, running, pending)]
        ELSE [p EXCEPT !.pc = "timeout",
                       !.last_status = StatusMsg(p.elapsed, running, pending)]

\* lines 496-508: resp is the exchange with /queue
ShowProgress(p, resp) ==
    LET queue == get_queue(resp)
        running == DictGet(queue, "queue_running", <<>>)
        pending == DictGet(queue, "queue_pending", <<>>)
    IN  [p EXCEPT !.pc = "timeout",
                  !.last_status = StatusMsg(p.elapsed, running, pending)]

\* a variant of TimedOut that gives up when the next sleep would pass the
\* deadline
TimedOutEarly(elapsed, timeout) == elapsed + SleepInterval > timeout

\* line 510
TimedOut(elapsed, timeout) == elapsed > timeout

\* lines 510-514
CheckTimeout(p, timeout) ==
    IF TimedOut(p.elapsed, timeout)
    THEN [p EXCEPT !.pc = "returned", !.ret = None, !.outcome = "Timeout"]
    ELSE [p EXCEPT !.pc = "history"]

----------------------------------------------------------------------------
(* main(): mode resolution, validation, mode defaults (pure parts) *)

Modes == {"t2v", "i2v", "i2i"}

\* the file names the model uses, with os.path.basename and the [:-4] cut
\* of lines 620-623 tabulated on them
Basename(path) ==
    CASE path = "pics/photo.png" -> "photo.png"
      [] path = "clips/beach.mp4" -> "beach.mp4"
      [] OTHER -> path

\* lines 622-623
StripExtension(name) ==
    CASE name = "beach.mp4" -> "beach"
      [] name = "photo.png" -> "photo"
      [] OTHER -> name

\* a variant of ResolveMode in which an image decides before --mode is read
ResolveModeImageFirst(a) ==
    IF TruthyStr(a.image) THEN "i2v"
    ELSE IF a.mode # None THEN a.mode[1]
    ELSE "t2v"

\* lines 579-584
ResolveMode(a) ==
    IF a.mode # None THEN a.mode[1]
    ELSE IF TruthyStr(a.image) THEN "i2v"
    ELSE "t2v"

\* a variant of MissingImage that forgets I2I
MissingImageI2VOnly(m, a) == m = "i2v" /\ ~TruthyStr(a.image)

\* line 587
MissingImage(m, a) == m \in {"i2v", "i2i"} /\ ~TruthyStr(a.image)

NegativeI2I == "ugly, deformed, noisy, blurry, low quality, cartoon, anime, 3d render, bad anatomy, bad proportions, extra limbs, cloned face, disfigured, gross proportions, malformed limbs, missing arms, missing legs, mutated hands, poorly drawn face, poorly drawn hands"
NegativeI2V == "blurry, low quality, distorted, deformed, static, frozen, flickering, morphing, ugly, bad anatomy, extra limbs, missing limbs, watermark, text, logo, different person, changing face"
NegativeT2V == "blurry, low quality, distorted, deformed, static, frozen, flickering, morphing, ugly, bad anatomy, extra limbs, missing limbs, watermark, text, logo"

\* a variant of I2IWidth without the sentinel test
I2IWidthAlways(width) == 1024

\* a variant of I2IWidth that doubles a width below the SDXL resolution
I2IWidthDoubling(width) == IF width < 1024 THEN 2 * width ELSE width

\* lines 598-599
I2IWidth(width) == IF width = 480 THEN 1024 ELSE width

\* lines 596-617
SetModeDefaults(m, a) ==
    IF m = "i2i"
    THEN [a EXCEPT
            !.width = I2IWidth(a.width),
            !.height = IF a.height = 320 THEN 1024 ELSE a.height,
            !.steps = IF a.steps = None THEN Some(25) ELSE a.steps,
            !.cfg = IF a.cfg = 10 THEN 70 ELSE a.cfg,
            !.negative = IF a.negative = None THEN Some(NegativeI2I)
                         ELSE a.negative]
    ELSE IF m = "i2v"
    THEN [a EXCEPT
            !.steps = IF a.steps = None THEN Some(20) ELSE a.steps,
            !.negative = IF a.negative = None THEN Some(NegativeI2V)
                         ELSE a.negative]
    ELSE [a EXCEPT
            !.steps = IF a.steps = None THEN Some(8) ELSE a.steps,
            !.negative = IF a.negative = None THEN Some(NegativeT2V)
                         ELSE a.negative]

\* lines 619-623
StripOutput(a) ==
    [a EXCEPT !.output = StripExtension(Basename(a.output))]

----------------------------------------------------------------------------
(* The argparse namespaces the model starts from (lines 547-576) *)

ParsedArgs(md, img, neg, out, w, h, st, c, sd, tmo, q) ==
    [prompt |-> "a dancer", image |-> img, mode |-> md, negative |-> neg,
     output |-> out, width |-> w, height |-> h, frames |-> 100, steps |-> st,
     cfg |-> c, seed |-> sd, timeout |-> tmo, queue |-> q]

OptionalModes == {None} \cup { Some(m) : m \in Modes }
Images == {None, Some(""), Some("pics/photo.png")}

\* the runs of main() that Spec explores
MainArgs ==
    { ParsedArgs(md, img, None, "clips/beach.mp4", w, 320, st, 10, sd, tmo, q) :
        md \in OptionalModes, img \in Images, w \in {480}, st \in {None},
        sd \in {None}, tmo \in 0..MaxTimeout, q \in BOOLEAN }

\* the requests PureSpec applies the pure steps to
PureArgs ==
    { ParsedArgs(None, Some("pics/photo.png"), neg, "nsfw_output", w, h, st, c,
                 Some(0), 900, FALSE) :
        neg \in {None, Some(""), Some("blurry")},
        w \in {480, 720, 1024}, h \in {320, 480, 1024},
        st \in {None, Some(20)} \cup { Some(n) : n \in 0..MaxSteps },
        c \in {10, 35, 70} }

----------------------------------------------------------------------------
(* The workflow builders.  A graph maps node ids to nodes.  A node's Python  *)
(* "inputs" dict is split in two: `inputs` holds the literal parameters and  *)
(* `links` the parameters that are [node-id, slot] references, as <<id, n>>. *)
(* Float literals written in the source are kept as their source text.       *)

Node(class_type, inputs, links) ==
    [class_type |-> class_type, inputs |-> inputs, links |-> links]

\* a variant of StepSplit that rounds the midpoint up
StepSplitCeil(steps) == (steps + 1) \div 2

\* line 91
StepSplit(steps) == steps \div 2

\* lines 78-237
build_i2v_workflow(prompt, negative_prompt, image_filename, width, height, frames, steps, cfg, seed, filename_prefix) ==
    LET stage1_end == StepSplit(steps)
        stage2_start == stage1_end
    IN
    ("1" :> Node("LoadImage", [image |-> image_filename], EmptyDict)) @@
    ("2" :> Node("ImageScale",
                 [upscale_method |-> "lanczos", width |-> width,
                  height |-> height, crop |-> "disabled"],
                 [image |-> <<"1", 0>>])) @@
    ("3" :> Node("CLIPLoader",
                 [clip_name |-> "umt5_xxl_fp8_e4m3fn_scaled.safetensors",
                  type |-> "wan"], EmptyDict)) @@
    ("4" :> Node("VAELoader", [vae_name |-> "wan_2.1_vae.safetensors"],
                 EmptyDict)) @@
    ("5" :> Node("UNETLoader",
                 [unet_name |-> "wan2.2_i2v_high_noise_14B_fp8_scaled.safetensors",
                  weight_dtype |-> "default"], EmptyDict)) @@
    ("6" :> Node("UNETLoader",
                 [unet_name |-> "wan2.2_i2v_low_noise_14B_fp8_scaled.safetensors",
                  weight_dtype |-> "default"], EmptyDict)) @@
    ("7" :> Node("CLIPTextEncode", [text |-> prompt], [clip |-> <<"3", 0>>])) @@
    ("8" :> Node("CLIPTextEncode", [text |-> negative_prompt],
                 [clip |-> <<"3", 0>>])) @@
    ("9" :> Node("CLIPVisionLoader",
                 [clip_name |-> "sigclip_vision_patch14_384.safetensors"],
                 EmptyDict)) @@
    ("10" :> Node("CLIPVisionEncode", EmptyDict,
                  [clip_vision |-> <<"9", 0>>, image |-> <<"2", 0>>])) @@
    ("11" :> Node("WanImageToVideo",
                  [width |-> width, height |-> height, length |-> frames,
                   batch_size |-> 1],
                  [positive |-> <<"7", 0>>, negative |-> <<"8", 0>>,
                   vae |-> <<"4", 0>>, clip_vision_output |-> <<"10", 0>>,
                   start_image |-> <<"2", 0>>])) @@
    ("12" :> Node("KSamplerAdvanced",
                  [add_noise |-> "enable", noise_seed |-> seed, steps |-> steps,
                   cfg |-> cfg, sampler_name |-> "euler", scheduler |-> "beta",
                   start_at_step |-> 0, end_at_step |-> stage1_end,
                   return_with_leftover_noise |-> "enable"],
                  [model |-> <<"5", 0>>, positive |-> <<"11", 0>>,
                   negative |-> <<"11", 1>>, latent_image |-> <<"11", 2>>])) @@
    ("13" :> Node("KSamplerAdvanced",
                  [add_noise |-> "disable", noise_seed |-> seed, steps |-> steps,
                   cfg |-> cfg, sampler_name |-> "euler", scheduler |-> "beta",
                   start_at_step |-> stage2_start, end_at_step |-> steps,
                   return_with_leftover_noise |-> "disable"],
                  [model |-> <<"6", 0>>, positive |-> <<"11", 0>>,
                   negative |-> <<"11", 1>>, latent_image |-> <<"12", 0>>])) @@
    ("14" :> Node("VAEDecode", EmptyDict,
                  [samples |-> <<"13", 0>>, vae |-> <<"4", 0>>])) @@
    ("15" :> Node("VHS_VideoCombine",
                  [frame_rate |-> 16, loop_count |-> 0,
                   filename_prefix |-> filename_prefix,
                   format |-> "video/h264-mp4", pix_fmt |-> "yuv420p",
                   crf |-> 19, save_metadata |-> TRUE, pingpong |-> FALSE,
                   save_output |-> TRUE],
                  [images |-> <<"14", 0>>]))

\* lines 240-339
build_i2i_workflow(prompt, negative_prompt, image_filename, width, height, steps, cfg, seed, filename_prefix) ==
    ("1" :> Node("LoadImage", [image |-> image_filename], EmptyDict)) @@
    ("2" :> Node("CheckpointLoaderSimple",
                 [ckpt_name |-> "realvisxl_v50.safetensors"], EmptyDict)) @@
    ("3" :> Node("IPAdapterUnifiedLoaderFaceID",
                 [preset |-> "FACEID PLUS V2", lora_strength |-> "0.85",
                  provider |-> "CUDA"],
                 [model |-> <<"2", 0>>])) @@
    ("4" :> Node("IPAdapterFaceID",
                 [weight |-> "0.85", weight_faceidv2 |-> "0.5",
                  weight_type |-> "linear", combine_embeds |-> "concat",
                  start_at |-> "0.0", end_at |-> "1.0",
                  embeds_scaling |-> "V only"],
                 [model |-> <<"3", 0>>, ipadapter |-> <<"3", 1>>,
                  image |-> <<"1", 0>>])) @@
    ("5" :> Node("CLIPTextEncode", [text |-> prompt], [clip |-> <<"2", 1>>])) @@
    ("6" :> Node("CLIPTextEncode", [text |-> negative_prompt],
                 [clip |-> <<"2", 1>>])) @@
    ("7" :> Node("EmptyLatentImage",
                 [width |-> width, height |-> height, batch_size |-> 1],
                 EmptyDict)) @@
    ("8" :> Node("KSampler",
                 [seed |-> seed, steps |-> steps, cfg |-> cfg,
                  sampler_name |-> "euler_ancestral", scheduler |-> "normal",
                  denoise |-> "1.0"],
                 [model |-> <<"4", 0>>, positive |-> <<"5", 0>>,
                  negative |-> <<"6", 0>>, latent_image |-> <<"7", 0>>])) @@
    ("9" :> Node("VAEDecode", EmptyDict,
                 [samples |-> <<"8", 0>>, vae |-> <<"2", 2>>])) @@
    ("10" :> Node("SaveImage", [filename_prefix |-> filename_prefix],
                  [images |-> <<"9", 0>>]))

\* a variant of build_workflow whose sampler takes its latent from node "9",
\* an id left over from a graph with other numbering
build_workflow_stale_id(prompt, negative_prompt, width, height, frames, steps, cfg, seed, filename_prefix) ==
    ("1" :> Node("CheckpointLoaderSimple",
                 [ckpt_name |-> "wan2.2-rapid-mega-aio-nsfw-v12.1.safetensors"],
                 EmptyDict)) @@
    ("2" :> Node("ModelSamplingSD3", [shift |-> "8.0"],
                 [model |-> <<"1", 0>>])) @@
    ("3" :> Node("CLIPTextEncode", [text |-> prompt], [clip |-> <<"1", 1>>])) @@
    ("4" :> Node("CLIPTextEncode", [text |-> negative_prompt],
                 [clip |-> <<"1", 1>>])) @@
    ("5" :> Node("WanImageToVideo",
                 [width |-> width, height |-> height, length |-> frames,
                  batch_size |-> 1],
                 [positive |-> <<"3", 0>>, negative |-> <<"4", 0>>,
                  vae |-> <<"1", 2>>])) @@
    ("6" :> Node("KSampler",
                 [seed |-> seed, steps |-> steps, cfg |-> cfg,
                  sampler_name |-> "euler_ancestral", scheduler |-> "beta",
                  denoise |-> "1.0"],
                 [model |-> <<"2", 0>>, positive |-> <<"5", 0>>,
                  negative |-> <<"5", 1>>, latent_image |-> <<"9", 0>>])) @@
    ("7" :> Node("VAEDecode", EmptyDict,
                 [samples |-> <<"6", 0>>, vae |-> <<"1", 2>>])) @@
    ("8" :> Node("VHS_VideoCombine",
                 [frame_rate |-> 16, loop_count |-> 0,
                  filename_prefix |-> filename_prefix,
                  format |-> "video/h264-mp4", pix_fmt |-> "yuv420p",
                  crf |-> 19, save_metadata |-> TRUE, pingpong |-> FALSE,
                  save_output |-> TRUE],
                 [images |-> <<"7", 0>>]))

\* lines 342-428
build_workflow(prompt, negative_prompt, width, height, frames, steps, cfg, seed, filename_prefix) ==
    ("1" :> Node("CheckpointLoaderSimple",
                 [ckpt_name |-> "wan2.2-rapid-mega-aio-nsfw-v12.1.safetensors"],
                 EmptyDict)) @@
    ("2" :> Node("ModelSamplingSD3", [shift |-> "8.0"],
                 [model |-> <<"1", 0>>])) @@
    ("3" :> Node("CLIPTextEncode", [text |-> prompt], [clip |-> <<"1", 1>>])) @@
    ("4" :> Node("CLIPTextEncode", [text |-> negative_prompt],
                 [clip |-> <<"1", 1>>])) @@
    ("5" :> Node("WanImageToVideo",
                 [width |-> width, height |-> height, length |-> frames,
                  batch_size |-> 1],
                 [positive |-> <<"3", 0>>, negative |-> <<"4", 0>>,
                  vae |-> <<"1", 2>>])) @@
    ("6" :> Node("KSampler",
                 [seed |-> seed, steps |-> steps, cfg |-> cfg,
                  sampler_name |-> "euler_ancestral", scheduler |-> "beta",
                  denoise |-> "1.0"],
                 [model |-> <<"2", 0>>, positive |-> <<"5", 0>>,
                  negative |-> <<"5", 1>>, latent_image |-> <<"5", 2>>])) @@
    ("7" :> Node("VAEDecode", EmptyDict,
                 [samples |-> <<"6", 0>>, vae |-> <<"1", 2>>])) @@
    ("8" :> Node("VHS_VideoCombine",
                 [frame_rate |-> 16, loop_count |-> 0,
                  filename_prefix |-> filename_prefix,
                  format |-> "video/h264-mp4", pix_fmt |-> "yuv420p",
                  crf |-> 19, save_metadata |-> TRUE, pingpong |-> FALSE,
                  save_output |-> TRUE],
                 [images |-> <<"7", 0>>]))

\* lines 661-698: image is the optional image_filename of line 650
BuildWorkflow(m, a, image) ==
    IF m = "i2i"
    THEN build_i2i_workflow(a.prompt, a.negative[1], image[1], a.width, a.height,
                            a.steps[1], a.cfg, a.seed[1], a.output)
    ELSE IF m = "i2v"
    THEN build_i2v_workflow(a.prompt, a.negative[1], image[1], a.width, a.height,
                            a.frames, a.steps[1], a.cfg, a.seed[1], a.output)
    ELSE build_workflow(a.prompt, a.negative[1], a.width, a.height, a.frames,
                        a.steps[1], a.cfg, a.seed[1], a.output)

----------------------------------------------------------------------------
(* upload_image and queue_prompt *)

\* POST /upload/image
UploadResponses ==
    {Failed, Answer(EmptyDict), Answer([name |-> "photo (1).png"])}

\* POST /prompt
SubmitResponses ==
    {Failed,
     Answer([prompt_id |-> JobId, number |-> 1, node_errors |-> EmptyDict]),
     Answer([error |-> "prompt_outputs_failed_validation",
             node_errors |-> ("6" :> "value_not_in_list")]),
     Answer([error |-> "prompt_no_outputs"]),
     Answer(EmptyDict)}

\* a variant of upload_image that falls back to the local file name when the
\* request fails
upload_image_swallow(image_path, readable, resp) ==
    IF ~TruthyStr(image_path) \/ ~readable
    THEN [raised |-> TRUE, sent |-> FALSE]
    ELSE [raised |-> FALSE, sent |-> TRUE,
          name |-> IF resp.ok
                   THEN DictGet(resp.body, "name", Basename(image_path[1]))
                   ELSE Basename(image_path[1])]

\* lines 31-75: image_path is args.image (optional); readable is whether the
\* file exists and can be read; the request is sent only then, and a path of
\* None or "" names no file (os.path.exists raises or is False)
upload_image(image_path, readable, resp) ==
    IF ~TruthyStr(image_path) \/ ~readable
    THEN [raised |-> TRUE, sent |-> FALSE]
    ELSE IF ~resp.ok
    THEN [raised |-> TRUE, sent |-> TRUE]
    ELSE [raised |-> FALSE, sent |-> TRUE,
          name |-> DictGet(resp.body, "name", Basename(image_path[1]))]

\* lines 431-448
queue_prompt(resp) == IF resp.ok THEN Some(resp.body) ELSE None

----------------------------------------------------------------------------
(* main() as a state machine *)

NoExchange == [call |-> "none", ok |-> TRUE]

NoCalls == [upload |-> 0, submit |-> 0, history |-> 0, queue |-> 0, sleep |-> 0]

Init ==
    /\ pc = "mode"
    /\ args \in MainArgs
    /\ raw = args
    /\ mode = None
    /\ uploaded_name = None
    /\ workflow = None
    /\ result = None
    /\ prompt_id = None
    /\ now = 100       \* some reading of the wall clock
    /\ poll = NotPolling
    /\ poll2 = NotPolling
    /\ calls = NoCalls
    /\ wire = NoExchange
    /\ exit_code = None

\* sys.exit(n), or falling off the end of main() (n = 0)
Exit(n) == pc' = "done" /\ exit_code' = Some(n)

\* lines 578-584
DetermineMode ==
    /\ pc = "mode"
    /\ mode' = Some(ResolveMode(args))
    /\ pc' = "validate"
    /\ UNCHANGED <<wire, args, raw, uploaded_name, workflow, result, prompt_id, now,
                   poll, poll2, calls, exit_code>>

\* lines 586-589
Validate ==
    /\ pc = "validate"
    /\ IF MissingImage(mode[1], args)
       THEN Exit(1)
       ELSE pc' = "seed" /\ UNCHANGED exit_code
    /\ UNCHANGED <<wire, args, raw, mode, uploaded_name, workflow, result, prompt_id,
                   now, poll, poll2, calls>>

\* lines 591-593
GenerateSeed ==
    /\ pc = "seed"
    /\ IF args.seed = None
       THEN \E s \in 0..MaxSeed : args' = [args EXCEPT !.seed = Some(s)]
       ELSE UNCHANGED args
    /\ pc' = "defaults"
    /\ UNCHANGED <<wire, raw, mode, uploaded_name, workflow, result, prompt_id, now,
                   poll, poll2, calls, exit_code>>

\* lines 595-623
ApplyDefaults ==
    /\ pc = "defaults"
    /\ args' = StripOutput(SetModeDefaults(mode[1], args))
    /\ pc' = "upload"
    /\ UNCHANGED <<wire, raw, mode, uploaded_name, workflow, result, prompt_id, now,
                   poll, poll2, calls, exit_code>>

\* lines 649-659
Upload ==
    /\ pc = "upload"
    /\ IF mode[1] \in {"i2v", "i2i"}
       THEN \E readable \in BOOLEAN, resp \in UploadResponses :
              LET r == upload_image(args.image, readable, resp)
              IN  /\ calls' = [calls EXCEPT
                                 !.upload = IF r.sent THEN @ + 1 ELSE @]
                  /\ wire' = IF r.sent THEN [call |-> "upload", ok |-> resp.ok]
                             ELSE wire
                  /\ IF r.raised
                     THEN Exit(1) /\ UNCHANGED uploaded_name
                     ELSE /\ uploaded_name' = Some(r.name)
                          /\ pc' = "build"
                          /\ UNCHANGED exit_code
       ELSE pc' = "build" /\ UNCHANGED <<uploaded_name, calls, wire, exit_code>>
    /\ UNCHANGED <<args, raw, mode, workflow, result, prompt_id, now, poll,
                   poll2>>

\* lines 661-698
Build ==
    /\ pc = "build"
    /\ workflow' = Some(BuildWorkflow(mode[1], args, uploaded_name))
    /\ pc' = "submit"
    /\ UNCHANGED <<wire, args, raw, mode, uploaded_name, result, prompt_id, now,
                   poll, poll2, calls, exit_code>>

\* lines 700-702
Submit ==
    /\ pc = "submit"
    /\ \E resp \in SubmitResponses :
         /\ result' = queue_prompt(resp)
         /\ wire' = [call |-> "submit", ok |-> resp.ok]
    /\ calls' = [calls EXCEPT !.submit = @ + 1]
    /\ pc' = "result"
    /\ UNCHANGED <<args, raw, mode, uploaded_name, workflow, prompt_id, now,
                   poll, poll2, exit_code>>

\* lines 704-716
CheckResult ==
    /\ pc = "result"
    /\ IF result = None
       THEN Exit(1) /\ UNCHANGED prompt_id
       ELSE IF "error" \in DOMAIN result[1]
       THEN Exit(1) /\ UNCHANGED prompt_id
       ELSE /\ prompt_id' = IF "prompt_id" \in DOMAIN result[1]
                            THEN Some(result[1]["prompt_id"]) ELSE None
            /\ pc' = "queue_only"
            /\ UNCHANGED exit_code
    /\ UNCHANGED <<wire, args, raw, mode, uploaded_name, workflow, result, now, poll,
                   poll2, calls>>

\* lines 729-740: leave after a fire-and-forget submission, else enter
\* wait_for_completion
QueueOnly ==
    /\ pc = "queue_only"
    /\ IF args.queue
       THEN Exit(0) /\ UNCHANGED poll
       ELSE /\ poll' = StartPolling(now)
            /\ pc' = "wait"
            /\ UNCHANGED exit_code
    /\ UNCHANGED <<wire, args, raw, mode, uploaded_name, workflow, result, prompt_id,
                   now, poll2, calls>>

\* lines 475-493
PollHistory ==
    /\ pc = "wait" /\ poll.pc = "history"
    /\ \E resp \in HistoryResponses, dt \in 0..MaxQueryTime :
         /\ poll' = CheckHistory(poll, prompt_id, resp, now)
         /\ now' = now + dt
         /\ wire' = [call |-> "history", ok |-> resp.ok]
    /\ calls' = [calls EXCEPT !.history = @ + 1]
    /\ UNCHANGED <<pc, args, raw, mode, uploaded_name, workflow, result,
                   prompt_id, poll2, exit_code>>

\* lines 495-508
PollQueue ==
    /\ pc = "wait" /\ poll.pc = "queue"
    /\ \E resp \in QueueResponses, dt \in 0..MaxQueryTime :
         /\ poll' = ShowProgress(poll, resp)
         /\ now' = now + dt
         /\ wire' = [call |-> "queue", ok |-> resp.ok]
    /\ calls' = [calls EXCEPT !.queue = @ + 1]
    /\ UNCHANGED <<pc, args, raw, mode, uploaded_name, workflow, result,
                   prompt_id, poll2, exit_code>>

\* lines 510-514
PollTimeout ==
    /\ pc = "wait" /\ poll.pc = "timeout"
    /\ poll' = CheckTimeout(poll, args.timeout)
    /\ IF poll'.pc = "history"
       THEN \E jitter \in 0..MaxJitter :
              /\ now' = now + SleepInterval + jitter
              /\ calls' = [calls EXCEPT !.sleep = @ + 1]
       ELSE UNCHANGED <<now, calls>>
    /\ UNCHANGED <<wire, pc, args, raw, mode, uploaded_name, workflow, result,
                   prompt_id, poll2, exit_code>>

\* lines 740-759
Finish ==
    /\ pc = "wait" /\ poll.pc = "returned"
    /\ IF poll.ret = None THEN Exit(1) ELSE Exit(0)
    /\ UNCHANGED <<wire, args, raw, mode, uploaded_name, workflow, result, prompt_id,
                   now, poll, poll2, calls>>

Next ==
    \/ DetermineMode
    \/ Validate
    \/ GenerateSeed
    \/ ApplyDefaults
    \/ Upload
    \/ Build
    \/ Submit
    \/ CheckResult
    \/ QueueOnly
    \/ PollHistory
    \/ PollQueue
    \/ PollTimeout
    \/ Finish

Spec == Init /\ [][Next]_vars

----------------------------------------------------------------------------
(* PollSpec: wait_for_completion on its own, entered with any timeout and    *)
(* with or without a job id, followed by main()'s handling of its result.    *)

PollInit ==
    /\ pc = "wait"
    /\ args \in { ParsedArgs(Some("t2v"), None, Some(NegativeT2V),
                             "nsfw_output", 480, 320, Some(8), 10, Some(0),
                             tmo, FALSE) : tmo \in 0..MaxTimeout }
    /\ raw = args
    /\ mode = Some("t2v")
    /\ uploaded_name = None
    /\ workflow = None
    /\ result = None
    /\ prompt_id \in {None, Some(JobId)}
    /\ now = 100
    /\ poll = StartPolling(now)
    /\ poll2 = NotPolling
    /\ calls = NoCalls
    /\ wire = NoExchange
    /\ exit_code = None

PollNext ==
    \/ PollHistory
    \/ PollQueue
    \/ PollTimeout
    \/ Finish

PollSpec == PollInit /\ [][PollNext]_vars

\* the process runs on until main() exits
FairPollSpec == PollSpec /\ WF_vars(PollNext)

----------------------------------------------------------------------------
(* What a history response says about the polled job, read off the response *)

HasEntry(h, id) == id # None /\ id[1] \in DOMAIN h

ReportsError(h, id) ==
    /\ HasEntry(h, id)
    /\ "status" \in DOMAIN h[id[1]]
    /\ "status_str" \in DOMAIN h[id[1]]["status"]
    /\ h[id[1]]["status"]["status_str"] = "error"

ReportsOutputs(h, id) ==
    /\ HasEntry(h, id)
    /\ "outputs" \in DOMAIN h[id[1]]
    /\ DOMAIN h[id[1]]["outputs"] # {}

----------------------------------------------------------------------------
(* Properties of wait_for_completion (PollSpec, FairPollSpec) *)

\* C1: the history query that shows status "error" for the polled job is the
\* step in which wait_for_completion returns Failure (None), with or without
\* outputs in the entry, and from then on no history query, queue query or
\* sleep is issued and the clock is not read again.
C1_ErrorEndsPolling ==
    [][ /\ (calls'.history = calls.history + 1
              /\ ReportsError(poll'.history, prompt_id))
           => (poll'.pc = "returned" /\ poll'.outcome = "Failure"
               /\ poll'.ret = None)
        /\ ReportsError(poll.history, prompt_id)
           => (calls' = calls /\ now' = now /\ poll' = poll)
      ]_vars

C1_Witness ==
    /\ pc = "done" /\ exit_code = Some(1)
    /\ poll.outcome = "Failure" /\ poll.iteration >= 2
    /\ ReportsError(poll.history, prompt_id)
    /\ ReportsOutputs(poll.history, prompt_id)

\* C2: wait_for_completion has returned Success exactly when its latest
\* history query shows, for the polled job, non-empty outputs and a status
\* other than "error"; the value returned is then that outputs mapping, and
\* in every other case the value is None.
C2_SuccessIffOutputs ==
    /\ poll.outcome = "Success"
       <=> (ReportsOutputs(poll.history, prompt_id)
            /\ ~ReportsError(poll.history, prompt_id))
    /\ poll.ret # None <=> poll.outcome = "Success"
    /\ poll.outcome = "Success"
       => (poll.pc = "returned"
           /\ poll.ret = Some(poll.history[prompt_id[1]]["outputs"]))

C2_Witness ==
    /\ pc = "done" /\ exit_code = Some(0)
    /\ poll.outcome = "Success" /\ poll.iteration >= 2
    /\ ReportsOutputs(poll.history, prompt_id)

\* C3: Timeout is returned only with the elapsed time of that iteration at
\* least the configured timeout, and every wait either returns Timeout or
\* has seen an error status or non-empty outputs for the job.
C3_TimeoutAtDeadline ==
    /\ [](poll.outcome = "Timeout"
          => (poll.pc = "returned" /\ poll.elapsed >= args.timeout
              /\ poll.elapsed <= now - poll.start_time))
    /\ (pc = "wait")
       ~> (poll.pc = "returned"
           /\ (poll.outcome = "Timeout"
               \/ ReportsError(poll.history, prompt_id)
               \/ ReportsOutputs(poll.history, prompt_id)))

C3_Witness ==
    /\ pc = "done" /\ exit_code = Some(1)
    /\ poll.outcome = "Timeout" /\ poll.iteration >= 2
    /\ poll.elapsed > args.timeout

\* C4: a failed history query leaves the poller with an empty history and on
\* its way to the queue query; a failed queue query leaves it on its way to
\* the timeout check with a progress line showing no jobs; and the wait ends
\* only by the timeout check or by an answered history query that shows an
\* error status or non-empty outputs for the job.
C4_QueryFailureIsNoNews ==
    /\ (wire.call = "history" /\ ~wire.ok)
       => (poll.pc = "queue" /\ poll.outcome = "none"
           /\ poll.history = EmptyDict)
    /\ (wire.call = "queue" /\ ~wire.ok)
       => (/\ poll.outcome \in {"none", "Timeout"}
           /\ poll.last_status = <<poll.elapsed, None, None>>)
    /\ poll.pc = "returned"
       => \/ poll.outcome = "Timeout" /\ poll.elapsed > args.timeout
          \/ /\ wire = [call |-> "history", ok |-> TRUE]
             /\ poll.outcome \in {"Success", "Failure"}
             /\ \/ ReportsError(poll.history, prompt_id)
                \/ ReportsOutputs(poll.history, prompt_id)

C4_Witness ==
    /\ pc = "wait" /\ poll.pc = "timeout" /\ poll.iteration >= 2
    /\ wire = [call |-> "queue", ok |-> FALSE]
    /\ poll.history = EmptyDict

----------------------------------------------------------------------------
(* Properties of main() before the first network call *)

NoImage(a) == a.image = None \/ a.image = Some("")

\* C6: a run whose resolved mode is I2V or I2I and that was given no source
\* image ends at the validation with exit code 1, and no upload, submission,
\* history query or queue query is ever issued in it.
C6_MissingImageIsFatal ==
    (mode # None /\ mode[1] \in {"i2v", "i2i"} /\ NoImage(raw)
     /\ pc # "validate")
    => (pc = "done" /\ exit_code = Some(1)
        /\ calls = NoCalls /\ wire = NoExchange /\ workflow = None)

C6_Witness ==
    /\ pc = "done" /\ exit_code = Some(1)
    /\ mode = Some("i2i") /\ raw.image = None /\ calls = NoCalls

\* C7: the resolved mode is the explicit --mode when given, else I2V when an
\* image is given, else T2V; a T2V run uploads nothing.
C7_ModeResolution ==
    mode # None
    => /\ mode[1] = IF raw.mode # None THEN raw.mode[1]
                    ELSE IF ~NoImage(raw) THEN "i2v" ELSE "t2v"
       /\ mode[1] = "t2v"
          => (calls.upload = 0 /\ uploaded_name = None
              /\ wire.call # "upload")

C7_Witness ==
    /\ pc = "done" /\ exit_code = Some(0) /\ calls.submit = 1
    /\ raw.mode = Some("t2v") /\ raw.image = Some("pics/photo.png")
    /\ mode = Some("t2v") /\ calls.upload = 0

----------------------------------------------------------------------------
(* TwinSpec: two runs of wait_for_completion that read the same clock and    *)
(* get the same history responses, but each its own queue responses.         *)

TwinInit ==
    /\ pc = "twin"
    /\ args \in { ParsedArgs(None, None, None, "nsfw_output", 480, 320, None,
                             10, None, tmo, FALSE) : tmo \in 0..MaxTimeout }
    /\ raw = args
    /\ mode = None
    /\ uploaded_name = None
    /\ workflow = None
    /\ result = None
    /\ prompt_id \in {None, Some(JobId)}
    /\ now = 100
    /\ poll = StartPolling(now)
    /\ poll2 = StartPolling(now)
    /\ calls = NoCalls
    /\ wire = NoExchange
    /\ exit_code = None

\* lines 475-493, in both runs
TwinHistory ==
    /\ pc = "twin"
    /\ poll.pc = "history" \/ poll2.pc = "history"
    /\ \E resp \in HistoryResponses, dt \in 0..MaxQueryTime :
         /\ poll' = IF poll.pc = "history"
                    THEN CheckHistory(poll, prompt_id, resp, now) ELSE poll
         /\ poll2' = IF poll2.pc = "history"
                     THEN CheckHistory(poll2, prompt_id, resp, now) ELSE poll2
         /\ now' = now + dt
    /\ calls' = [calls EXCEPT !.history = @ + 1]
    /\ UNCHANGED <<pc, args, raw, mode, uploaded_name, workflow, result,
                   prompt_id, wire, exit_code>>

\* lines 495-508, in both runs
TwinQueue ==
    /\ pc = "twin"
    /\ poll.pc = "queue" \/ poll2.pc = "queue"
    /\ \E resp1 \in QueueResponses, resp2 \in QueueResponses,
          dt \in 0..MaxQueryTime :
         /\ poll' = IF poll.pc = "queue" THEN ShowProgress(poll, resp1)
                    ELSE poll
         /\ poll2' = IF poll2.pc = "queue" THEN ShowProgress(poll2, resp2)
                     ELSE poll2
         /\ now' = now + dt
    /\ calls' = [calls EXCEPT !.queue = @ + 1]
    /\ UNCHANGED <<pc, args, raw, mode, uploaded_name, workflow, result,
                   prompt_id, wire, exit_code>>

\* lines 510-514, in both runs
TwinTimeout ==
    /\ pc = "twin"
    /\ poll.pc = "timeout" \/ poll2.pc = "timeout"
    /\ poll' = IF poll.pc = "timeout" THEN CheckTimeout(poll, args.timeout)
               ELSE poll
    /\ poll2' = IF poll2.pc = "timeout" THEN CheckTimeout(poll2, args.timeout)
                ELSE poll2
    /\ IF poll'.pc = "history" \/ poll2'.pc = "history"
       THEN \E jitter \in 0..MaxJitter :
              /\ now' = now + SleepInterval + jitter
              /\ calls' = [calls EXCEPT !.sleep = @ + 1]
       ELSE UNCHANGED <<now, calls>>
    /\ UNCHANGED <<pc, args, raw, mode, uploaded_name, workflow, result,
                   prompt_id, wire, exit_code>>

TwinNext ==
    \/ TwinHistory
    \/ TwinQueue
    \/ TwinTimeout

TwinSpec == TwinInit /\ [][TwinNext]_vars

\* C5: two waits that see the same clock readings and the same history
\* responses return the same outcome and value in the same iteration,
\* whatever the queue answers (or fails to answer) in each.
C5_QueueIsInformational ==
    /\ poll.outcome = poll2.outcome
    /\ poll.ret = poll2.ret
    /\ poll.iteration = poll2.iteration
    /\ poll.pc = poll2.pc
    /\ poll.elapsed = poll2.elapsed

C5_Witness ==
    /\ poll.pc = "returned" /\ poll2.pc = "returned"
    /\ poll.outcome = "Timeout" /\ poll.iteration >= 2
    /\ poll.last_status = <<poll.elapsed, None, None>>
    /\ poll2.last_status = <<poll.elapsed, None, Some(2)>>

----------------------------------------------------------------------------
(* PureSpec: the default-resolution step and the builders applied to a wide  *)
(* range of requests, the defaults up to twice.                              *)

PureInit ==
    /\ pc = "pure0"
    /\ args \in PureArgs
    /\ raw = args
    /\ mode \in { Some(m) : m \in Modes }
    /\ uploaded_name = Some("photo.png")
    /\ workflow = None
    /\ result = None
    /\ prompt_id = None
    /\ now = 100
    /\ poll = NotPolling
    /\ poll2 = NotPolling
    /\ calls = NoCalls
    /\ wire = NoExchange
    /\ exit_code = None

\* lines 595-617
PureDefaults ==
    /\ pc \in {"pure0", "pure1"}
    /\ args' = SetModeDefaults(mode[1], args)
    /\ pc' = IF pc = "pure0" THEN "pure1" ELSE "pure2"
    /\ UNCHANGED <<raw, mode, uploaded_name, workflow, result, prompt_id, now,
                   poll, poll2, calls, wire, exit_code>>

\* lines 661-698
PureBuild ==
    /\ pc \in {"pure1", "pure2"}
    /\ workflow = None
    /\ workflow' = Some(BuildWorkflow(mode[1], args, uploaded_name))
    /\ UNCHANGED <<pc, args, raw, mode, uploaded_name, result, prompt_id, now,
                   poll, poll2, calls, wire, exit_code>>

PureNext ==
    \/ PureDefaults
    \/ PureBuild

PureSpec == PureInit /\ [][PureNext]_vars

\* C8: after the default step every field but width, height, steps, cfg and
\* negative is as parsed; steps and negative are replaced only when unset
\* (25 / 20 / 8 and the mode's own negative prompt); width 480, height 320
\* and cfg 1.0 are replaced by 1024, 1024 and 7.0 in I2I only, and any other
\* width, height or cfg is kept.
C8_DefaultsOnlyOnSentinels ==
    pc \in {"pure1", "pure2"}
    => LET m == mode[1]
       IN  /\ \A f \in {"prompt", "image", "mode", "output", "frames", "seed",
                        "timeout", "queue"} : args[f] = raw[f]
           /\ args.steps =
                IF raw.steps # None THEN raw.steps
                ELSE IF m = "i2i" THEN Some(25)
                ELSE IF m = "i2v" THEN Some(20) ELSE Some(8)
           /\ args.negative =
                IF raw.negative # None THEN raw.negative
                ELSE IF m = "i2i" THEN Some(NegativeI2I)
                ELSE IF m = "i2v" THEN Some(NegativeI2V) ELSE Some(NegativeT2V)
           /\ NegativeI2I # NegativeI2V /\ NegativeI2V # NegativeT2V
           /\ NegativeI2I # NegativeT2V
           /\ m = "i2i"
              => /\ args.width = IF raw.width = 480 THEN 1024 ELSE raw.width
                 /\ args.height = IF raw.height = 320 THEN 1024 ELSE raw.height
                 /\ args.cfg = IF raw.cfg = 10 THEN 70 ELSE raw.cfg
           /\ m # "i2i"
              => (args.width = raw.width /\ args.height = raw.height
                  /\ args.cfg = raw.cfg)

C8_Witness ==
    /\ pc = "pure1" /\ mode = Some("i2i")
    /\ raw.width = 480 /\ raw.height = 480 /\ raw.cfg = 10
    /\ raw.steps = None /\ raw.negative = Some("")
    /\ args.width = 1024 /\ args.height = 480 /\ args.cfg = 70
    /\ args.steps = Some(25) /\ args.negative = Some("")

\* C9: applying the default step of a mode to a request that has been through
\* it changes no field.
C9_DefaultsIdempotent ==
    [][(pc = "pure1" /\ pc' = "pure2") => args' = args]_vars

C9_Witness ==
    /\ pc = "pure2" /\ mode = Some("i2i")
    /\ raw.width = 480 /\ raw.height = 320 /\ raw.cfg = 10
    /\ raw.steps = None /\ raw.negative = None
    /\ args.width = 1024 /\ args.cfg = 70 /\ args.steps = Some(25)

\* the steps k with from <= k < to
StepRange(from, to) == { k \in from..(to - 1) : TRUE }

\* C10: in the I2V graph built for steps >= 0, the high-noise sampler (node
\* 12) runs [0, floor(steps/2)) and the low-noise sampler (node 13) runs
\* [floor(steps/2), steps): the ranges meet, are disjoint and cover
\* [0, steps); both samplers carry the request's steps and seed.
C10_I2VStepSplit ==
    (workflow # None /\ mode = Some("i2v") /\ args.steps[1] >= 0)
    => LET hi == workflow[1]["12"].inputs
           lo == workflow[1]["13"].inputs
           n == args.steps[1]
           stage1 == StepRange(hi.start_at_step, hi.end_at_step)
           stage2 == StepRange(lo.start_at_step, lo.end_at_step)
       IN  /\ hi.start_at_step = 0
           /\ 2 * hi.end_at_step <= n /\ n < 2 * hi.end_at_step + 2
           /\ lo.start_at_step = hi.end_at_step
           /\ lo.end_at_step = n
           /\ stage1 \cap stage2 = {}
           /\ stage1 \cup stage2 = StepRange(0, n)
           /\ hi.steps = n /\ lo.steps = n
           /\ hi.noise_seed = args.seed[1] /\ lo.noise_seed = args.seed[1]
           /\ n = 20 => (stage1 = 0..9 /\ stage2 = 10..19)
           /\ n = 7 => (stage1 = 0..2 /\ stage2 = 3..6)

C10_Witness ==
    /\ workflow # None /\ mode = Some("i2v") /\ raw.steps = Some(7)
    /\ workflow[1]["12"].inputs.end_at_step = 3
    /\ workflow[1]["13"].inputs.start_at_step = 3
    /\ workflow[1]["13"].inputs.end_at_step = 7

----------------------------------------------------------------------------
(* Properties of the graphs *)

\* the node ids a node's references name
Referenced(g, n) == { g[n].links[l][1] : l \in DOMAIN g[n].links }

\* whether the nodes of rest can be removed one layer at a time, each layer
\* holding the nodes that reference no node still in rest
RECURSIVE Peels(_, _)
Peels(g, rest) ==
    IF rest = {} THEN TRUE
    ELSE LET free == { n \in rest : Referenced(g, n) \cap rest = {} }
         IN  IF free = {} THEN FALSE ELSE Peels(g, rest \ free)

\* C11: in the graph built for any mode and any request, every reference
\* names a node id of that graph, and the graph has no cycle.
C11_GraphWellFormed ==
    workflow # None
    => /\ \A n \in DOMAIN workflow[1] :
            Referenced(workflow[1], n) \subseteq DOMAIN workflow[1]
       /\ Peels(workflow[1], DOMAIN workflow[1])

C11_Witness ==
    /\ workflow # None /\ mode = Some("i2v")
    /\ Cardinality(DOMAIN workflow[1]) = 15
    /\ workflow[1]["13"].links.latent_image = <<"12", 0>>
    /\ workflow[1]["12"].links.latent_image = <<"11", 2>>

----------------------------------------------------------------------------
(* What the caller of wait_for_completion gets to see *)

\* the value wait_for_completion returns when the engine reports the job as
\* failed (line 489)
FailureReturn ==
    CheckHistory(StartPolling(0), Some(JobId),
                 Answer(JobId :> Entry(None, Some(StatusError))), 0).ret

\* the exit code main() ends with after that value (line 743)
FailureExit == Some(1)

\* C12: a run whose wait timed out differs, in the value wait_for_completion
\* returned or in the exit code main() ended with, from a run whose job the
\* engine reported as failed.
C12_TimeoutDistinctFromFailure ==
    (pc = "done" /\ prompt_id = Some(JobId) /\ poll.outcome = "Timeout")
    => (poll.ret # FailureReturn \/ exit_code # FailureExit)

----------------------------------------------------------------------------
(* The order of the network calls in main() (Spec) *)

ImageMode == mode # None /\ mode[1] \in {"i2v", "i2i"}

Polled == calls.history + calls.queue + calls.sleep > 0

Accepted == result # None /\ "error" \notin DOMAIN result[1]

\* C13: at most one upload, in image modes only, and at most one submission;
\* a submission in an image mode follows a successful upload; polling follows
\* an accepted submission without --queue; a failed or impossible upload ends
\* the run with code 1 and no submission; a failed or rejected submission
\* ends it with code 1 and no polling; an accepted submission with --queue
\* ends it with code 0 and no polling.
C13_CallOrder ==
    /\ calls.upload <= 1 /\ calls.submit <= 1
    /\ calls.upload = 1 => ImageMode
    /\ (calls.submit = 1 /\ ImageMode)
       => (calls.upload = 1 /\ uploaded_name # None
           /\ workflow[1]["1"].inputs.image = uploaded_name[1])
    /\ (Polled \/ poll # NotPolling)
       => (calls.submit = 1 /\ Accepted /\ ~args.queue)
    /\ (ImageMode /\ uploaded_name = None
        /\ pc \notin {"validate", "seed", "defaults", "upload"})
       => (pc = "done" /\ exit_code = Some(1) /\ calls.submit = 0 /\ ~Polled)
    /\ (wire = [call |-> "upload", ok |-> FALSE])
       => (pc = "done" /\ exit_code = Some(1) /\ calls.submit = 0)
    /\ (calls.submit = 1 /\ ~Accepted /\ pc # "result")
       => (pc = "done" /\ exit_code = Some(1) /\ ~Polled)
    /\ (calls.submit = 1 /\ Accepted /\ args.queue
        /\ pc \notin {"result", "queue_only"})
       => (pc = "done" /\ exit_code = Some(0) /\ ~Polled)

C13_Witness ==
    /\ pc = "done" /\ exit_code = Some(0) /\ mode = Some("i2v")
    /\ calls.upload = 1 /\ calls.submit = 1
    /\ calls.history >= 2 /\ calls.queue >= 1 /\ calls.sleep >= 1
    /\ uploaded_name = Some("photo (1).png")

\* C14: the wait is entered, and a fire-and-forget run reports success, only
\* with the job id the server returned for this run's submission.
C14_PollsOnlyReturnedId ==
    (poll # NotPolling \/ (pc = "done" /\ args.queue /\ exit_code = Some(0)))
    => (/\ prompt_id # None
        /\ "prompt_id" \in DOMAIN result[1]
        /\ prompt_id[1] = result[1]["prompt_id"])

====
